---- MODULE Spec2Model ----
(***************************************************************************)
(* Model of util::Callback<R(Args...)> (src/util/callback.h): a two-field  *)
(* value (context, functor), the factories util::Function and util::Bind,  *)
(* and the operations on stored callbacks.                                 *)
(*                                                                         *)
(* Two instantiations are modelled: Callback<bool(int)> (slots 1 and 2),   *)
(* with the free functions f and g as targets, and Callback<int()> (slots  *)
(* 3 and 4), with the free function h and two Counter objects with the     *)
(* member functions int increment() and int get() const as targets.        *)
(* Callbacks of different instantiations are different types and never     *)
(* meet, so each instantiation has its own specification.                  *)
(***************************************************************************)
EXTENDS Integers, Sequences, FiniteSets, TLC

\* ---------------------------------------------------------------- bounds
MaxCount == 3
NumThreads == 2

\* ------------------------------------------------------- addresses/types
Null == "nullptr"

FreeFunctions == {"f", "g", "h"}
Objects == {"o1", "o2"}
Contexts == {Null} \cup FreeFunctions \cup Objects

\* The contexts a caller hands to the two-argument constructor.
HandContexts == {Null, "o1"}

SigBoolInt == "bool(int)"
SigInt == "int()"

BoolIntSlots == {1, 2}
IntSlots == {3, 4}
Slots == BoolIntSlots \cup IntSlots

Threads == 1..NumThreads

SigOf(k) == IF k \in BoolIntSlots THEN SigBoolInt ELSE SigInt

\* The lambdas of the factories, one function per template instantiation.
FunctionLambda == "Function<bool,int>::lambda"
FunctionLambdaInt == "Function<int>::lambda"
BindLambdaIncrement == "_BindHelper<&Counter::increment>::lambda"
BindLambdaGet == "_BindHelper<&Counter::get>::lambda"

Functors(sig) ==
    IF sig = SigBoolInt THEN {Null, FunctionLambda}
    ELSE {Null, FunctionLambdaInt, BindLambdaIncrement, BindLambdaGet}

\* The free functions of each signature.
FreeFunctionsOf(sig) == IF sig = SigBoolInt THEN {"f", "g"} ELSE {"h"}

ArgVals == {-1, 0, 5}
ArgTuples(sig) == IF sig = SigBoolInt THEN {<<x>> : x \in ArgVals} ELSE {<<>>}
ValueCategories == {"lvalue", "rvalue"}

\* Parameter passing mode of each parameter of the signature.
ParamModes(sig) == IF sig = SigBoolInt THEN <<"value">> ELSE <<>>

RetVals(sig) == IF sig = SigBoolInt THEN BOOLEAN ELSE 0..MaxCount

\* R{}
DefaultR(sig) == IF sig = SigBoolInt THEN FALSE ELSE 0

\* ---------------------------------------------------------------- state
VARIABLES
    cb,       \* cb[k]: the (context, functor) pair stored in callback k
    count,    \* count[o]: the internal count of Counter object o
    ninv,     \* ninv[o]: invocations dispatched to increment on o so far
    twin,     \* the latest copy of a set callback and what it copied
    last,     \* the last operation performed and what it observed
    halted,   \* the program has crashed
    thr       \* thr[t]: where reader thread t is in the operation it runs

vars == <<cb, count, ninv, twin, last, halted, thr>>

\* ------------------------------------------------------------ the class
Callback2(context, functor) == [context |-> context, functor |-> functor]

Callback1(functor) == Callback2(Null, functor)

Callback0 == [context |-> Null, functor |-> Null]

\* A copy that leaves the context behind.
CopyOf_FunctorOnly(other) == [context |-> Null, functor |-> other.functor]

CopyOf(other) == [context |-> other.context, functor |-> other.functor]

\* IsSet() that also wants a context.
IsSet_ContextToo(c) == c.functor # Null /\ c.context # Null

IsSet(c) == c.functor # Null

OperatorBool(c) == IsSet(c)

\* operator== that looks at one member only.
OperatorEq_FunctorOnly(c, other) == c.functor = other.functor

OperatorEq_ContextOnly(c, other) == c.context = other.context

OperatorEq(c, other) == (c.context = other.context) /\ (c.functor = other.functor)

OperatorNeq(c, other) == ~OperatorEq(c, other)

\* ------------------------------------------------------------ factories
Function(function, sig) ==
    Callback2(function, IF sig = SigBoolInt THEN FunctionLambda ELSE FunctionLambdaInt)

BindHelper(item, F) == Callback2(item, BindLambdaIncrement)

BindHelperConst(item, F) == Callback2(item, BindLambdaGet)

Bind(item, F) ==
    IF F = "increment" THEN BindHelper(item, F) ELSE BindHelperConst(item, F)

\* -------------------------------------------------------------- targets
\* The free functions under test:
\* bool f(int x) { return x > 0; }  bool g(int x) { return x < 0; }
\* int h() { return 1; }
FreeCall(function, args) ==
    IF function = "f" THEN args[1] > 0
    ELSE IF function = "g" THEN args[1] < 0
    ELSE 1

\* int Counter::increment() { return ++count; }
CounterIncrement(cnt, o) == [cnt EXCEPT ![o] = @ + 1]

\* int Counter::get() const { return count; }
CounterGet(cnt, o) == cnt[o]

\* ---------------------------------------------------------- trampolines
\* What one call of a functor can do: the value returned, the targets
\* called (in order), the counters afterwards, and whether it crashed.
Returned(r, calls, cnt) == [crash |-> FALSE, ret |-> r, calls |-> calls, count |-> cnt]

\* A call through a pointer that does not point at what the lambda casts it
\* to: the process dies, or some value comes back and no target has run.
UndefinedCall(sig, cnt) ==
    {[crash |-> TRUE, ret |-> DefaultR(sig), calls |-> <<>>, count |-> cnt]}
    \cup {Returned(r, <<>>, cnt) : r \in RetVals(sig)}

\* The lambda calling the function twice.
FunctionLambdaCall_Twice(context, sig, args, cnt) ==
    IF context \in FreeFunctionsOf(sig)
    THEN {Returned(FreeCall(context, args),
                   <<[target |-> context, this |-> Null, args |-> args],
                     [target |-> context, this |-> Null, args |-> args]>>,
                   cnt)}
    ELSE UndefinedCall(sig, cnt)

FunctionLambdaCall(context, sig, args, cnt) ==
    IF context \in FreeFunctionsOf(sig)
    THEN {Returned(FreeCall(context, args),
                   <<[target |-> context, this |-> Null, args |-> args]>>,
                   cnt)}
    ELSE UndefinedCall(sig, cnt)

\* The lambda calling the member function on a copy of the object.
BindLambdaIncrementCall_OnCopy(context, args, cnt) ==
    IF context \in Objects
    THEN IF cnt[context] < MaxCount
         THEN {Returned(CounterIncrement(cnt, context)[context],
                        <<[target |-> "increment", this |-> context, args |-> args]>>,
                        cnt)}
         ELSE {}
    ELSE UndefinedCall(SigInt, cnt)

BindLambdaIncrementCall(context, args, cnt) ==
    IF context \in Objects
    THEN IF cnt[context] < MaxCount
         THEN {Returned(CounterIncrement(cnt, context)[context],
                        <<[target |-> "increment", this |-> context, args |-> args]>>,
                        CounterIncrement(cnt, context))}
         ELSE {}
    ELSE UndefinedCall(SigInt, cnt)

BindLambdaGetCall(context, args, cnt) ==
    IF context \in Objects
    THEN {Returned(CounterGet(cnt, context),
                   <<[target |-> "get", this |-> context, args |-> args]>>,
                   cnt)}
    ELSE UndefinedCall(SigInt, cnt)

\* functor(context, args...); a call through a null functor is undefined.
FunctorCall(functor, context, sig, args, cnt) ==
    IF functor \in {FunctionLambda, FunctionLambdaInt}
    THEN FunctionLambdaCall(context, sig, args, cnt)
    ELSE IF functor = BindLambdaIncrement THEN BindLambdaIncrementCall(context, args, cnt)
    ELSE IF functor = BindLambdaGet THEN BindLambdaGetCall(context, args, cnt)
    ELSE UndefinedCall(sig, cnt)

\* operator() without the IsSet() check.
OperatorCall_Unchecked(c, sig, args, cnt) ==
    FunctorCall(c.functor, c.context, sig, args, cnt)

\* Callback::operator(): every outcome of invoking c with args.
OperatorCall(c, sig, args, cnt) ==
    IF ~IsSet(c)
    THEN {Returned(DefaultR(sig), <<>>, cnt)}
    ELSE FunctorCall(c.functor, c.context, sig, args, cnt)

\* ------------------------------------------------------ argument passing
\* Copy and move constructions of one argument on its way to the target.
NoCopy == [copies |-> 0, moves |-> 0]

\* operator() takes Argsp&&...: a reference binds, nothing is constructed.
PassToOperator(mode, cat) == NoCopy

\* functor(context, std::forward<Argsp>(args)...): the functor's parameter
\* has type Args, initialised from the forwarded expression.
PassToFunctor(mode, cat) ==
    IF mode = "value"
    THEN IF cat = "lvalue" THEN [copies |-> 1, moves |-> 0]
                           ELSE [copies |-> 0, moves |-> 1]
    ELSE NoCopy

\* target(args...): inside the lambda args is an lvalue, so a by-value
\* parameter of the target is copy-constructed from it.
PassToTarget(mode) ==
    IF mode = "value" THEN [copies |-> 1, moves |-> 0] ELSE NoCopy

\* How far an invocation with this outcome got in building parameters.
\* An unset callback returns before the functor is called.  A set one
\* builds the functor's parameters (the caller of the functor does, line
\* 297), and the lambda builds the target's parameters for the call it
\* makes; when that call is undefined the target's parameters may or may
\* not have been built by the time the call goes wrong.
TargetParametersBuilt(set, out) ==
    IF ~set THEN {FALSE}
    ELSE IF out.calls # <<>> THEN {TRUE}
    ELSE BOOLEAN

ArgumentCopies(mode, cat, entered, built) ==
    PassToOperator(mode, cat).copies
    + (IF entered THEN PassToFunctor(mode, cat).copies ELSE 0)
    + (IF built THEN PassToTarget(mode).copies ELSE 0)

ArgumentMoves(mode, cat, entered, built) ==
    PassToOperator(mode, cat).moves
    + (IF entered THEN PassToFunctor(mode, cat).moves ELSE 0)
    + (IF built THEN PassToTarget(mode).moves ELSE 0)

\* ----------------------------------------------------------------- Init
NoOp == [op |-> "none", slot |-> 0, other |-> 0, rhs |-> Callback0,
         args |-> <<>>, cat |-> "none",
         set |-> FALSE, res |-> FALSE, ret |-> 0, calls |-> <<>>,
         copies |-> <<>>, moves |-> <<>>, crash |-> FALSE]

Idle == [pc |-> "idle", op |-> "none", args |-> <<>>, local |-> Callback0,
         res |-> FALSE, ret |-> FALSE, calls |-> <<>>, called |-> Callback0]

NoTwin == [copy |-> 0, orig |-> 0, pair |-> Callback0, written |-> {}]

Init ==
    /\ cb = [k \in Slots |-> Callback0]
    /\ count = [o \in Objects |-> 0]
    /\ ninv = [o \in Objects |-> 0]
    /\ twin = NoTwin
    /\ last = NoOp
    /\ halted = FALSE
    /\ thr = [t \in Threads |-> Idle]

\* -------------------------------------------------------------- actions
\* Bookkeeping of the latest copy: a write to one of the two is noted, and
\* once both have been written the copy is forgotten.
TwinAfterWrite(k) ==
    IF k \in {twin.copy, twin.orig}
    THEN IF twin.written \cup {k} = {twin.copy, twin.orig}
         THEN NoTwin
         ELSE [twin EXCEPT !.written = @ \cup {k}]
    ELSE twin

\* Members shared by all callbacks of a type, as static members would be.
Store_Shared(k, value, op, other) ==
    /\ ~halted
    /\ cb' = [j \in Slots |-> IF SigOf(j) = SigOf(k) THEN CopyOf(value) ELSE cb[j]]
    /\ twin' = IF op = "copy" /\ other # k /\ IsSet(value)
               THEN [copy |-> k, orig |-> other, pair |-> value, written |-> {}]
               ELSE TwinAfterWrite(k)
    /\ last' = [NoOp EXCEPT !.op = op, !.slot = k, !.other = other, !.rhs = value]
    /\ UNCHANGED <<count, ninv, halted, thr>>

\* cb[k] = <value>, by the defaulted copy assignment.
Store(k, value, op, other) ==
    /\ ~halted
    /\ cb' = [cb EXCEPT ![k] = CopyOf(value)]
    /\ twin' = IF op = "copy" /\ other # k /\ IsSet(value)
               THEN [copy |-> k, orig |-> other, pair |-> value, written |-> {}]
               ELSE TwinAfterWrite(k)
    /\ last' = [NoOp EXCEPT !.op = op, !.slot = k, !.other = other, !.rhs = value]
    /\ UNCHANGED <<count, ninv, halted, thr>>

\* cb[k] = Callback();
AssignDefault(k) == Store(k, Callback0, "assign", 0)

\* cb[k] = Callback(functor);
AssignFunctor(k, functor) == Store(k, Callback1(functor), "assign", 0)

\* cb[k] = Callback(context, functor);
AssignRaw(k, context, functor) == Store(k, Callback2(context, functor), "assign", 0)

\* cb[k] = util::Function(function);
AssignFunction(k, function) == Store(k, Function(function, SigOf(k)), "assign", 0)

\* cb[k] = util::Bind<&Counter::F>(item);
AssignBind(k, item, F) == Store(k, Bind(item, F), "assign", 0)

\* cb[k] = cb[j];
AssignCopy(k, j) == Store(k, cb[j], "copy", j)

Observe(op, k, j, rhs, res) ==
    /\ ~halted
    /\ last' = [NoOp EXCEPT !.op = op, !.slot = k, !.other = j, !.rhs = rhs,
                            !.res = res]
    /\ UNCHANGED <<cb, count, ninv, twin, halted, thr>>

\* cb[k].IsSet()
QueryIsSet(k) == Observe("IsSet", k, 0, Callback0, IsSet(cb[k]))

\* static_cast<bool>(cb[k])
QueryBool(k) == Observe("bool", k, 0, Callback0, OperatorBool(cb[k]))

\* cb[k] == cb[j]
CompareEq(k, j) == Observe("==", k, j, cb[j], OperatorEq(cb[k], cb[j]))

\* cb[k] != cb[j]
CompareNeq(k, j) == Observe("!=", k, j, cb[j], OperatorNeq(cb[k], cb[j]))

\* cb[k] == Callback(), cb[k] != Callback()
CompareEmpty(k, op) ==
    Observe(op, k, 0, Callback0,
            IF op = "==" THEN OperatorEq(cb[k], Callback0)
                         ELSE OperatorNeq(cb[k], Callback0))

\* cb[k](args...), the arguments being lvalues or rvalues at the call site
Invoke(k, args, cat) ==
    /\ ~halted
    /\ \E out \in OperatorCall(cb[k], SigOf(k), args, count) :
       \E built \in TargetParametersBuilt(IsSet(cb[k]), out) :
         /\ count' = out.count
         /\ halted' = out.crash
         /\ ninv' = IF IsSet(cb[k]) /\ cb[k].functor = BindLambdaIncrement
                       /\ cb[k].context \in Objects
                    THEN [ninv EXCEPT ![cb[k].context] = @ + 1]
                    ELSE ninv
         /\ last' = [NoOp EXCEPT
                       !.op = "invoke", !.slot = k, !.args = args, !.cat = cat,
                       !.set = IsSet(cb[k]),
                       !.ret = out.ret, !.calls = out.calls, !.crash = out.crash,
                       !.copies = [i \in 1..Len(args) |->
                          ArgumentCopies(ParamModes(SigOf(k))[i], cat, IsSet(cb[k]), built)],
                       !.moves = [i \in 1..Len(args) |->
                          ArgumentMoves(ParamModes(SigOf(k))[i], cat, IsSet(cb[k]), built)]]
    /\ UNCHANGED <<cb, twin, thr>>

\* Callback<bool(int)>: the two factories' free-function side and the
\* hand-made pairs.
Next ==
    \/ \E k \in BoolIntSlots : AssignDefault(k)
    \/ \E k \in BoolIntSlots : \E fn \in Functors(SigBoolInt) : AssignFunctor(k, fn)
    \/ \E k \in BoolIntSlots : \E c \in HandContexts : \E fn \in Functors(SigBoolInt) :
          AssignRaw(k, c, fn)
    \/ \E k \in BoolIntSlots : \E f \in FreeFunctionsOf(SigBoolInt) \cup {Null} :
          AssignFunction(k, f)
    \/ \E k \in BoolIntSlots : \E j \in BoolIntSlots : AssignCopy(k, j)
    \/ \E k \in BoolIntSlots : QueryIsSet(k)
    \/ \E k \in BoolIntSlots : QueryBool(k)
    \/ \E k \in BoolIntSlots : \E j \in BoolIntSlots : CompareEq(k, j)
    \/ \E k \in BoolIntSlots : \E j \in BoolIntSlots : CompareNeq(k, j)
    \/ \E k \in BoolIntSlots : \E op \in {"==", "!="} : CompareEmpty(k, op)
    \/ \E k \in BoolIntSlots : \E a \in ArgTuples(SigBoolInt) :
          \E cat \in ValueCategories : Invoke(k, a, cat)

Spec == Init /\ [][Next]_vars

\* Callback<int()>: util::Function on h and util::Bind on the counters.
NextBind ==
    \/ \E k \in IntSlots : AssignDefault(k)
    \/ \E k \in IntSlots : \E f \in FreeFunctionsOf(SigInt) : AssignFunction(k, f)
    \/ \E k \in IntSlots : \E o \in Objects : \E F \in {"increment", "get"} :
          AssignBind(k, o, F)
    \/ \E k \in IntSlots : \E j \in IntSlots : AssignCopy(k, j)
    \/ \E k \in IntSlots : QueryIsSet(k)
    \/ \E k \in IntSlots : QueryBool(k)
    \/ \E k \in IntSlots : \E j \in IntSlots : CompareEq(k, j)
    \/ \E k \in IntSlots : \E j \in IntSlots : CompareNeq(k, j)
    \/ \E k \in IntSlots : \E op \in {"==", "!="} : CompareEmpty(k, op)
    \/ \E k \in IntSlots : \E a \in ArgTuples(SigInt) :
          \E cat \in ValueCategories : Invoke(k, a, cat)

SpecBind == Init /\ [][NextBind]_vars

\* ------------------------------------------------------ reader threads
\* Several threads use the one callback cb[Shared] without writing it; each
\* step is one read of a member, or the call through the functor.
Shared == 1
Partner == 2

ReadOps == {"IsSet", "bool", "==", "!=", "copy", "invoke"}

InitRead ==
    /\ cb \in [Slots -> {Callback0, Function("f", SigBoolInt), Function("g", SigBoolInt),
                         Callback2("o1", Null)}]
    /\ cb[Partner] \in {Callback0, Function("f", SigBoolInt)}
    /\ \A k \in IntSlots : cb[k] = Callback0
    /\ count = [o \in Objects |-> 0]
    /\ ninv = [o \in Objects |-> 0]
    /\ twin = NoTwin
    /\ last = NoOp
    /\ halted = FALSE
    /\ thr = [t \in Threads |-> Idle]

ReadFrame == UNCHANGED <<cb, count, ninv, twin, last, halted>>

\* thread t starts an operation on the shared callback
TBegin(t, op, args) ==
    /\ thr[t].pc = "idle"
    /\ thr' = [thr EXCEPT ![t] = [Idle EXCEPT
                 !.op = op, !.args = args,
                 !.pc = IF op \in {"IsSet", "bool"} THEN "IsSet"
                        ELSE IF op \in {"==", "!="} THEN "eq_context"
                        ELSE IF op = "copy" THEN "copy_context"
                        ELSE "check"]]
    /\ ReadFrame

\* IsSet(), also as called by operator bool
TIsSet(t) ==
    /\ thr[t].pc = "IsSet"
    /\ thr' = [thr EXCEPT ![t].pc = "done", ![t].res = (cb[Shared].functor # Null)]
    /\ ReadFrame

\* operator==, left operand of &&; operator!= negates the result
TEqContext(t) ==
    /\ thr[t].pc = "eq_context"
    /\ thr' = IF cb[Shared].context = cb[Partner].context
              THEN [thr EXCEPT ![t].pc = "eq_functor"]
              ELSE [thr EXCEPT ![t].pc = "done", ![t].res = (thr[t].op = "!=")]
    /\ ReadFrame

\* operator==, right operand of &&
TEqFunctor(t) ==
    /\ thr[t].pc = "eq_functor"
    /\ thr' = [thr EXCEPT ![t].pc = "done",
                 ![t].res = IF thr[t].op = "=="
                            THEN cb[Shared].functor = cb[Partner].functor
                            ELSE ~(cb[Shared].functor = cb[Partner].functor)]
    /\ ReadFrame

\* the defaulted copy constructor, member by member
TCopyContext(t) ==
    /\ thr[t].pc = "copy_context"
    /\ thr' = [thr EXCEPT ![t].pc = "copy_functor",
                          ![t].local.context = cb[Shared].context]
    /\ ReadFrame

\* A copy that takes the functor away from its source.
TCopyFunctor_Steals(t) ==
    /\ thr[t].pc = "copy_functor"
    /\ thr' = [thr EXCEPT ![t].pc = "done",
                          ![t].local.functor = cb[Shared].functor]
    /\ cb' = [cb EXCEPT ![Shared].functor = Null]
    /\ UNCHANGED <<count, ninv, twin, last, halted>>

TCopyFunctor(t) ==
    /\ thr[t].pc = "copy_functor"
    /\ thr' = [thr EXCEPT ![t].pc = "done",
                          ![t].local.functor = cb[Shared].functor]
    /\ ReadFrame

\* operator(): if (!this->IsSet()) return R{};
TInvokeCheck(t) ==
    /\ thr[t].pc = "check"
    /\ thr' = IF cb[Shared].functor # Null
              THEN [thr EXCEPT ![t].pc = "call"]
              ELSE [thr EXCEPT ![t].pc = "done", ![t].ret = DefaultR(SigOf(Shared))]
    /\ ReadFrame

\* operator(): return this->functor(this->context, args...);
TInvokeCall(t) ==
    /\ thr[t].pc = "call"
    /\ \E out \in FunctorCall(cb[Shared].functor, cb[Shared].context, SigOf(Shared),
                            thr[t].args, count) :
         /\ ~out.crash
         /\ count' = out.count
         /\ thr' = [thr EXCEPT ![t].pc = "done", ![t].ret = out.ret,
                               ![t].calls = out.calls,
                               ![t].called = Callback2(cb[Shared].context,
                                                       cb[Shared].functor)]
    /\ UNCHANGED <<cb, ninv, twin, last, halted>>

\* the operation returns to its caller
TReturn(t) ==
    /\ thr[t].pc = "done"
    /\ thr' = [thr EXCEPT ![t] = Idle]
    /\ ReadFrame

NextRead ==
    \/ \E t \in Threads : \E op \in ReadOps \ {"invoke"} : TBegin(t, op, <<>>)
    \/ \E t \in Threads : \E a \in ArgTuples(SigOf(Shared)) : TBegin(t, "invoke", a)
    \/ \E t \in Threads : TIsSet(t)
    \/ \E t \in Threads : TEqContext(t)
    \/ \E t \in Threads : TEqFunctor(t)
    \/ \E t \in Threads : TCopyContext(t)
    \/ \E t \in Threads : TCopyFunctor(t)
    \/ \E t \in Threads : TInvokeCheck(t)
    \/ \E t \in Threads : TInvokeCall(t)
    \/ \E t \in Threads : TReturn(t)

SpecRead == InitRead /\ [][NextRead]_vars

\* ------------------------------------------------------------ properties
Writes == {"assign", "copy"}
Reads == {"invoke", "IsSet", "bool", "==", "!="}

EmptyCallbackStep ==
    \A k \in Slots :
        (cb[k] = Callback0 /\ last'.slot = k /\ cb'[k] = cb[k]) =>
            /\ last'.op \in {"IsSet", "bool"} => last'.res = FALSE
            /\ last'.op = "invoke" =>
                 /\ last'.ret = DefaultR(SigOf(k))
                 /\ last'.calls = <<>>
                 /\ ~last'.crash /\ ~halted'
                 /\ count' = count

\* C1: a default-constructed callback, or a copy of one, answers IsSet()
\* and the boolean conversion with false, and its invocation with any
\* arguments returns R{}, calls no functor or target, does not crash and
\* leaves the targets' state as it was.
C1_DefaultConstructedIsInert == [][EmptyCallbackStep]_vars

C1_Witness ==
    /\ last.op = "invoke" /\ last.args = <<5>>
    /\ cb[last.slot] = Callback0
    /\ last.ret = FALSE /\ last.calls = <<>>

\* C2: one invocation of the callback util::Function(fn) made calls fn
\* exactly once, with the arguments of the invocation, and returns fn's
\* result: for f(x) = x > 0, true for 5 and false for -1.
C2_FunctionInvokesTargetOnce ==
    \A fn \in FreeFunctionsOf(SigBoolInt) :
        (last.op = "invoke" /\ cb[last.slot] = Function(fn, SigBoolInt)) =>
            /\ last.calls = <<[target |-> fn, this |-> Null, args |-> last.args]>>
            /\ last.ret = FreeCall(fn, last.args)
            /\ ~last.crash
            /\ (fn = "f" /\ last.args = <<5>>) => last.ret = TRUE
            /\ (fn = "f" /\ last.args = <<-1>>) => last.ret = FALSE

C2_Witness ==
    /\ last.op = "invoke" /\ last.args = <<5>>
    /\ cb[last.slot] = Function("f", SigBoolInt)
    /\ last.ret = TRUE /\ Len(last.calls) = 1

\* C5 as stated: a callback compares equal to a default-constructed one
\* exactly when it is not set.
C5_EqualsEmptyIffUnset ==
    \A k \in Slots : OperatorEq(cb[k], Callback0) <=> ~IsSet(cb[k])

\* C5 amended: a set callback compares unequal to a default-constructed
\* one, and a callback compares equal to a default-constructed one exactly
\* when it is not set and its context is null.
C5_EqualsEmptyIffBothNull ==
    /\ \A k \in Slots :
         /\ IsSet(cb[k]) => OperatorNeq(cb[k], Callback0)
         /\ OperatorEq(cb[k], Callback0) <=> (~IsSet(cb[k]) /\ cb[k].context = Null)
    /\ (last.op \in {"==", "!="} /\ last.other = 0 /\ last.rhs = Callback0) =>
         (last.res = (last.op = "==")) <=>
             (~IsSet(cb[last.slot]) /\ cb[last.slot].context = Null)

C5_Witness ==
    /\ last.op = "==" /\ last.other = 0 /\ last.rhs = Callback0
    /\ cb[last.slot] = Callback2("o1", Null)
    /\ ~IsSet(cb[last.slot])
    /\ last.res = FALSE

\* C8 as stated: on its way from the call site to the target's parameter
\* every argument of a dispatched invocation is copied at most once, and the
\* callback holds nothing but its pair afterwards.
C8_ArgumentsCopiedAtMostOnce ==
    (last.op = "invoke" /\ last.calls # <<>>) =>
        /\ \A i \in 1..Len(last.args) : last.copies[i] <= 1
        /\ DOMAIN cb[last.slot] = {"context", "functor"}

\* C9: IsSet() and the boolean conversion answer functor != null whatever
\* the context: the callback of util::Function(nullptr) has a null context
\* and the lambda as functor and is set; a callback with a context and a null
\* functor is not set, and its invocation returns R{} and calls nothing.
C9_IsSetIsFunctorNonNull ==
    /\ last.op \in {"IsSet", "bool"} => last.res = (cb[last.slot].functor # Null)
    /\ Function(Null, SigBoolInt).context = Null
    /\ Function(Null, SigBoolInt).functor = FunctionLambda
    /\ \A k \in Slots :
         /\ cb[k] = Function(Null, SigBoolInt) => IsSet(cb[k]) /\ OperatorBool(cb[k])
         /\ cb[k].functor = Null => ~IsSet(cb[k]) /\ ~OperatorBool(cb[k])
    /\ (last.op = "invoke" /\ cb[last.slot].functor = Null) =>
         /\ last.ret = DefaultR(SigOf(last.slot))
         /\ last.calls = <<>> /\ ~last.crash /\ ~last.set

C9_Witness ==
    /\ last.op = "IsSet" /\ last.res = TRUE
    /\ cb[last.slot] = Function(Null, SigBoolInt)
    /\ \E k \in Slots : cb[k] = Callback2("o1", Null)

\* C3: each invocation of the callback util::Bind<&Counter::increment>(o)
\* calls increment exactly once on o itself: the count of o equals the
\* number of invocations made so far, and the k-th invocation returns k.
C3_BindMutatesOriginalObject ==
    /\ \A o \in Objects : count[o] = ninv[o]
    /\ \A o \in Objects :
         (last.op = "invoke" /\ cb[last.slot] = Bind(o, "increment")) =>
            /\ last.calls = <<[target |-> "increment", this |-> o, args |-> <<>>]>>
            /\ last.ret = ninv[o]
            /\ last.ret = count[o]
            /\ ~last.crash

C3_Witness ==
    /\ last.op = "invoke" /\ cb[last.slot] = Bind("o1", "increment")
    /\ last.ret = 3 /\ ninv["o1"] = 3 /\ count["o1"] = 3
    /\ count["o2"] = 0

\* C4: operator== and operator!= are decided by the (context, functor) pair
\* alone: callbacks made by two calls of util::Function on the same function
\* compare equal, callbacks made by util::Bind with the same member function
\* on two different objects compare unequal.
C4_EqualityIsPairEquality ==
    (last.op \in {"==", "!="}) =>
        /\ (last.res = (last.op = "==")) <=>
               (cb[last.slot].context = last.rhs.context
                /\ cb[last.slot].functor = last.rhs.functor)
        /\ last.other # 0 => last.rhs = cb[last.other]
        /\ \A fn \in FreeFunctionsOf(SigInt) :
             (last.other # 0 /\ last.other # last.slot
              /\ cb[last.slot] = Function(fn, SigInt)
              /\ cb[last.other] = Function(fn, SigInt)) =>
                 last.res = (last.op = "==")
        /\ \A o1 \in Objects : \A o2 \in Objects \ {o1} :
             \A F \in {"increment", "get"} :
                (last.other # 0
                 /\ cb[last.slot] = Bind(o1, F) /\ cb[last.other] = Bind(o2, F)) =>
                    last.res = (last.op = "!=")

C4_Witness ==
    /\ last.op = "==" /\ last.slot = 3 /\ last.other = 4
    /\ cb[3] = Bind("o1", "increment") /\ cb[4] = Bind("o2", "increment")
    /\ last.res = FALSE

\* C6: a copy of a set callback holds the pair of its original, compares
\* equal to it and has the same invocation outcomes; whatever is assigned
\* to one of the two later, the other keeps the pair that was copied.
C6_CopiesAreIndependent ==
    twin # NoTwin =>
        /\ IsSet(twin.pair)
        /\ \A k \in {twin.copy, twin.orig} \ twin.written :
             /\ cb[k] = twin.pair
             /\ \A a \in ArgTuples(SigOf(k)) :
                  OperatorCall(cb[k], SigOf(k), a, count)
                      = OperatorCall(twin.pair, SigOf(k), a, count)
             /\ (last.op = "invoke" /\ last.slot = k
                 /\ twin.pair.context \in FreeFunctionsOf(SigOf(k))) =>
                    /\ Len(last.calls) = 1
                    /\ last.calls[1].target = twin.pair.context
        /\ twin.written = {} =>
             /\ OperatorEq(cb[twin.copy], cb[twin.orig])
             /\ ~OperatorNeq(cb[twin.copy], cb[twin.orig])

C6_Witness ==
    /\ twin # NoTwin /\ twin.written = {twin.copy}
    /\ cb[twin.copy] # twin.pair
    /\ cb[twin.orig] = twin.pair
    /\ last.op = "invoke" /\ last.slot = twin.orig
    /\ Len(last.calls) = 1

PairChangesOnlyByAssignment ==
    /\ \A k \in Slots :
         /\ cb'[k] # cb[k] => last'.op \in Writes /\ last'.slot = k
         /\ (last'.op \in Writes /\ last'.slot = k) =>
               /\ cb'[k] = last'.rhs
               /\ IsSet(cb'[k]) = (last'.rhs.functor # Null)
               /\ last'.op = "copy" => last'.rhs = cb[last'.other]
         /\ (last'.op = "copy" /\ last'.other = k /\ last'.slot # k) => cb'[k] = cb[k]
    /\ last'.op \in Reads => cb' = cb

\* C10: a callback is either unset or set, and its pair changes only by an
\* assignment to it, which leaves it with exactly the pair assigned (set if
\* the source is set, unset if the source is empty); invoking, IsSet(), the
\* boolean conversion, comparing and being copied from leave it unchanged.
C10_PairChangesOnlyByAssignment == [][PairChangesOnlyByAssignment]_vars

C10_Witness ==
    /\ twin # NoTwin /\ twin.written = {twin.copy}
    /\ last.op = "assign" /\ last.slot = twin.copy /\ last.rhs = Callback0
    /\ ~IsSet(cb[twin.copy])
    /\ IsSet(cb[twin.orig])

ReaderResult(t) ==
    LET r == thr[t] IN
    r.pc = "done" =>
        /\ r.op \in {"IsSet", "bool"} => r.res = IsSet(cb[Shared])
        /\ r.op = "==" => r.res = OperatorEq(cb[Shared], cb[Partner])
        /\ r.op = "!=" => r.res = OperatorNeq(cb[Shared], cb[Partner])
        /\ r.op = "copy" => r.local = cb[Shared]
        /\ r.op = "invoke" =>
             /\ Returned(r.ret, r.calls, count)
                   \in OperatorCall(cb[Shared], SigOf(Shared), r.args, count)
             /\ IsSet(cb[Shared]) => r.called = cb[Shared]
             /\ ~IsSet(cb[Shared]) => r.calls = <<>>

\* C7: while threads only read the shared callback, its pair never changes,
\* IsSet(), the boolean conversion and the comparisons answer as they do in
\* a single thread, a copy holds the shared pair, and an invocation calls
\* the functor with the shared pair and has a single-threaded outcome.
C7_ConcurrentReadsAreStable ==
    /\ [](\A t \in Threads : ReaderResult(t))
    /\ [][cb' = cb]_vars

C7_Witness ==
    /\ \A t \in Threads : thr[t].pc = "done"
    /\ thr[1].op = "invoke" /\ thr[1].calls # <<>>
    /\ thr[2].op = "copy" /\ thr[2].local = cb[Shared]
    /\ IsSet(cb[Shared])

TypeOK ==
    /\ \A k \in Slots : cb[k].context \in Contexts /\ cb[k].functor \in Functors(SigOf(k))
    /\ \A o \in Objects : count[o] \in 0..MaxCount
    /\ halted \in BOOLEAN

====
